---------------------------- MODULE Spec2Model ----------------------------
(***************************************************************************)
(* pgAdmin 4: the server-type registry                                     *)
(* (web/pgadmin/browser/server_groups/servers/types.py) and the user-table *)
(* migration c465fee44968 (web/migrations/versions/c465fee44968_.py).      *)
(*                                                                         *)
(* Three specifications share the variables:                               *)
(*   Spec      the registry: construction, register_preferences, types,    *)
(*             utility and get_utility_path on registered descriptors;     *)
(*   SpecPath  utility / get_utility_path over every bounded content of    *)
(*             the binary-path preference;                                 *)
(*   SpecMig   upgrade() of the migration, statement by statement.         *)
(***************************************************************************)
EXTENDS Integers, Sequences, FiniteSets, TLC

VARIABLES
    registry,   \* ServerType.registry: the descriptors, in insertion order
    store,      \* the preference store: handle -> decoded JSON list
    ret,        \* what the last call returned or raised
    args,       \* SpecPath: the operation and server version asked for
    pc,         \* upgrade(): the statement about to run
    db,         \* the database: table name -> set of rows (absent = no table)
    user_old,   \* upgrade(): the result of the select, in the order fetched
    params,     \* upgrade(): the parameter list built for the insert
    inserted,   \* upgrade(): how many parameter sets the insert has executed
    done,       \* upgrade(): the statements that completed, in order
    pre         \* the rows of the user table before upgrade() (history)

vars ==
    <<registry, store, ret, args, pc, db, user_old, params, inserted, done, pre>>
migVars == <<pc, db, user_old, params, inserted, done, pre>>

\* Python's None, and JSON's null.
None == "None"

(***************************************************************************)
(* Bounds                                                                  *)
(***************************************************************************)
\* Priorities are drawn from -1 .. MaxPriority.
MaxPriority == 0
\* A binary-path preference holds at most this many entries.
MaxEntries == 2
\* Server versions are drawn from 8 .. MaxSVersion.
MaxSVersion == 11
\* The user table holds at most this many rows before the migration.
MaxUsers == 2

(***************************************************************************)
(* The server-type registry                                                *)
(***************************************************************************)
TypeKeys == {"pg", "ppas", "gpdb"}
Descriptions == {"PostgreSQL", "Other"}
Priorities == -1 .. MaxPriority

\* registry = dict(): key lookup in the insertion-ordered dict.
RegistryKeys(reg) == {reg[i].stype : i \in DOMAIN reg}

RegistryGet(reg, key) == reg[CHOOSE i \in DOMAIN reg : reg[i].stype = key]

\* ServerType.__init__ with the assignment made before the assertion.
ServerTypeInitAssignFirst(reg, server_type, description, priority) ==
    LET self == [stype |-> server_type, desc |-> description,
                 spriority |-> priority, utility_path |-> None]
    IN  IF server_type \in RegistryKeys(reg)
        THEN [raised |-> "AssertionError",
              registry |-> [i \in DOMAIN reg |->
                               IF reg[i].stype = server_type THEN self
                               ELSE reg[i]]]
        ELSE [raised |-> None, registry |-> Append(reg, self)]

\* ServerType.__init__: the new descriptor, the assertion, the registration.
ServerTypeInit(reg, server_type, description, priority) ==
    LET self == [stype |-> server_type, desc |-> description,
                 spriority |-> priority, utility_path |-> None]
    IN  IF server_type \in RegistryKeys(reg)
        THEN [raised |-> "AssertionError", registry |-> reg]
        ELSE [raised |-> None, registry |-> Append(reg, self)]

\* The preference handle register_preferences gives to a type key.
PreferenceHandle(key) ==
    IF key = "pg" THEN "pg_bin_dir"
    ELSE IF key = "ppas" THEN "ppas_bin_dir"
    ELSE None

\* register_preferences keeping only the types it knows a preference for.
RegisterPreferencesLoopKnownOnly(reg) ==
    SelectSeq([i \in DOMAIN reg |->
                  [reg[i] EXCEPT !.utility_path =
                                    PreferenceHandle(reg[i].stype)]],
              LAMBDA st : st.utility_path # None)

\* register_preferences: the loop over cls.registry.
RegisterPreferencesLoop(reg) ==
    [i \in DOMAIN reg |->
        IF PreferenceHandle(reg[i].stype) # None
        THEN [reg[i] EXCEPT !.utility_path = PreferenceHandle(reg[i].stype)]
        ELSE reg[i]]

Reverse(s) == [i \in DOMAIN s |-> s[Len(s) + 1 - i]]

\* One step of a stable ascending sort on priority: x goes after every
\* element whose key is not greater.
RECURSIVE InsertByPriority(_, _)
InsertByPriority(sorted, x) ==
    IF sorted = <<>> THEN <<x>>
    ELSE IF sorted[Len(sorted)].spriority <= x.spriority
         THEN Append(sorted, x)
         ELSE Append(InsertByPriority(SubSeq(sorted, 1, Len(sorted) - 1), x),
                     sorted[Len(sorted)])

RECURSIVE StableSort(_)
StableSort(s) ==
    IF s = <<>> THEN <<>>
    ELSE InsertByPriority(StableSort(SubSeq(s, 1, Len(s) - 1)), s[Len(s)])

\* sorted(..., reverse=True) without the reversal that keeps ties stable.
typesUnstable(reg) == Reverse(StableSort(reg))

\* types(): sorted(registry.values(), key=priority, reverse=True).  A
\* reversed sort reverses the list, sorts it stably and reverses the result.
types(reg) == Reverse(StableSort(Reverse(reg)))

(***************************************************************************)
(* The binary-path preference and the utility paths                        *)
(***************************************************************************)
\* Version strings are digit sequences; int() reads them in base 10.
RECURSIVE int(_)
int(s) == IF s = <<>> THEN 0 ELSE 10 * int(SubSeq(s, 1, Len(s) - 1)) + s[Len(s)]

\* The version ranges of the entries: [9, 10) and [10, 11).
VersionRanges ==
    {[version |-> <<9>>, next_major_version |-> <<1, 0>>],
     [version |-> <<1, 0>>, next_major_version |-> <<1, 1>>]}
BinaryPaths == {"/usr/pg", "$DIR/rt"}
SVersions == 8 .. MaxSVersion

BinPathEntries ==
    {[version |-> r.version, next_major_version |-> r.next_major_version,
      binaryPath |-> p, isDefault |-> d] :
        r \in VersionRanges, p \in BinaryPaths \cup {None}, d \in BOOLEAN}

PrefLists == UNION {[1 .. n -> BinPathEntries] : n \in 0 .. MaxEntries}

Operations == {"backup", "backup_server", "restore", "sql"}
OperationNames == Operations \cup {"unknown_op"}

UtilityName(operation) ==
    CASE operation = "backup" -> "pg_dump"
      [] operation = "backup_server" -> "pg_dumpall"
      [] operation = "restore" -> "pg_restore"
      [] operation = "sql" -> "psql"

\* The condition with the upper bound of the range included.
InRangeIncl(bin_path, sversion) ==
    /\ int(bin_path.version) <= sversion
    /\ sversion <= int(bin_path.next_major_version)
    /\ bin_path.binaryPath # None

\* The condition of the loop's first if.
InRange(bin_path, sversion) ==
    /\ int(bin_path.version) <= sversion
    /\ sversion < int(bin_path.next_major_version)
    /\ bin_path.binaryPath # None

\* The loop with the default looked at before the range.
RECURSIVE ScanDefaultFirst(_, _, _, _)
ScanDefaultFirst(bin_path_json, i, sversion, default_path) ==
    IF i > Len(bin_path_json) THEN default_path
    ELSE IF bin_path_json[i].isDefault
         THEN bin_path_json[i].binaryPath
         ELSE IF InRange(bin_path_json[i], sversion)
              THEN bin_path_json[i].binaryPath
              ELSE ScanDefaultFirst(bin_path_json, i + 1, sversion, default_path)

\* get_utility_path: the loop over the decoded list, from entry i on.
RECURSIVE Scan(_, _, _, _)
Scan(bin_path_json, i, sversion, default_path) ==
    IF i > Len(bin_path_json) THEN default_path
    ELSE IF InRange(bin_path_json[i], sversion)
         THEN bin_path_json[i].binaryPath
         ELSE Scan(bin_path_json, i + 1, sversion,
                   IF bin_path_json[i].isDefault
                   THEN bin_path_json[i].binaryPath
                   ELSE default_path)

\* get_utility_path: self.utility_path.get() on None raises AttributeError.
get_utility_path(st, sto, sversion) ==
    IF st.utility_path = None
    THEN [raised |-> "AttributeError", value |-> None, exe |-> None,
          prefRead |-> FALSE]
    ELSE [raised |-> None,
          value |-> Scan(sto[st.utility_path], 1, sversion, None),
          exe |-> None, prefRead |-> TRUE]

\* "$DIR" in bin_path
ContainsDir(bin_path) == bin_path \in {"$DIR/rt"}

\* os.path.dirname(main_module_file)
Dirname(main_module_file) ==
    CASE main_module_file = "/app/pgAdmin4.py" -> "/app"

\* bin_path.replace("$DIR", dir)
Replace(bin_path, dir) ==
    CASE bin_path = "$DIR/rt" /\ dir = "/app" -> "/app/rt"
      [] OTHER -> bin_path

\* The $DIR block of utility().
ReplaceDir(bin_path, main_module_file) ==
    IF ContainsDir(bin_path) /\ main_module_file # None
    THEN Replace(bin_path, Dirname(main_module_file))
    ELSE bin_path

\* res if os.name != 'nt' else res + '.exe'
ExeName(res, osname) ==
    IF osname # "nt" THEN res
    ELSE CASE res = "pg_dump" -> "pg_dump.exe"
           [] res = "pg_dumpall" -> "pg_dumpall.exe"
           [] res = "pg_restore" -> "pg_restore.exe"
           [] res = "psql" -> "psql.exe"

OsNames == {"posix", "nt"}
MainModuleFiles == {None, "/app/pgAdmin4.py"}

\* utility() with the operation checked after the path is resolved.
utilityPathFirst(st, sto, operation, sversion, osname, main_module_file) ==
    LET got == get_utility_path(st, sto, sversion)
    IN  IF got.raised # None THEN got
        ELSE IF got.value = None THEN got
        ELSE IF operation \notin Operations
             THEN [raised |-> "InternalServerError", value |-> None,
                   exe |-> None, prefRead |-> TRUE]
        ELSE [raised |-> None,
              value |-> ReplaceDir(got.value, main_module_file),
              exe |-> ExeName(UtilityName(operation), osname),
              prefRead |-> TRUE]

\* utility(): the executable for an operation, in the directory resolved.
\* The path returned, os.path.join(bin_path, exe), is the pair (value, exe).
utility(st, sto, operation, sversion, osname, main_module_file) ==
    IF operation \notin Operations
    THEN [raised |-> "InternalServerError", value |-> None,
          exe |-> None, prefRead |-> FALSE]
    ELSE LET got == get_utility_path(st, sto, sversion)
         IN  IF got.raised # None THEN got
             ELSE IF got.value = None THEN got
             ELSE [raised |-> None,
                   value |-> ReplaceDir(got.value, main_module_file),
                   exe |-> ExeName(UtilityName(operation), osname),
                   prefRead |-> TRUE]

(***************************************************************************)
(* The registry's operations                                               *)
(***************************************************************************)
\* What paths.register() finds as the value of a preference it creates: the
\* built-in list (no path set), or one with a configured default path.
DefaultPrefLists ==
    {<<[version |-> <<9>>, next_major_version |-> <<1, 0>>,
        binaryPath |-> None, isDefault |-> FALSE]>>,
     <<[version |-> <<1, 0>>, next_major_version |-> <<1, 1>>,
        binaryPath |-> "/usr/pg", isDefault |-> TRUE]>>}

\* The state when the module has been imported: its last line registers pg.
ModuleLoaded ==
    ServerTypeInit(<<>>, "pg", "PostgreSQL", -1).registry

\* ServerType(server_type, description, priority)
Construct(server_type, description, priority) ==
    /\ LET r == ServerTypeInit(registry, server_type, description, priority)
       IN  /\ registry' = r.registry
           /\ ret' = [call |-> "ServerType", key |-> server_type,
                      raised |-> r.raised]
    /\ UNCHANGED <<store, args, migVars>>

\* ServerType.register_preferences(); a preference that exists keeps its value.
RegisterPreferences(created) ==
    /\ registry' = RegisterPreferencesLoop(registry)
    /\ store' = [h \in DOMAIN store \cup
                       ({registry'[i].utility_path : i \in DOMAIN registry'}
                           \ {None}) |->
                    IF h \in DOMAIN store THEN store[h] ELSE created]
    /\ ret' = [call |-> "register_preferences"]
    /\ UNCHANGED <<args, migVars>>

\* ServerType.types()
Types ==
    /\ ret' = [call |-> "types", value |-> types(registry)]
    /\ UNCHANGED <<registry, store, args, migVars>>

\* registry[key].get_utility_path(sversion)
GetUtilityPath(key, sversion) ==
    /\ key \in RegistryKeys(registry)
    /\ LET r == get_utility_path(RegistryGet(registry, key), store, sversion)
       IN  ret' = [call |-> "get_utility_path", key |-> key,
                   operation |-> None, sversion |-> sversion,
                   raised |-> r.raised, value |-> r.value, exe |-> r.exe,
                   prefRead |-> r.prefRead]
    /\ UNCHANGED <<registry, store, args, migVars>>

\* registry[key].utility(operation, sversion)
Utility(key, operation, sversion, osname, main_module_file) ==
    /\ key \in RegistryKeys(registry)
    /\ LET r == utility(RegistryGet(registry, key), store, operation,
                        sversion, osname, main_module_file)
       IN  ret' = [call |-> "utility", key |-> key,
                   operation |-> operation, sversion |-> sversion,
                   raised |-> r.raised, value |-> r.value, exe |-> r.exe,
                   prefRead |-> r.prefRead]
    /\ UNCHANGED <<registry, store, args, migVars>>

MigIdle ==
    /\ pc = "idle"
    /\ db = <<>>
    /\ user_old = <<>>
    /\ params = <<>>
    /\ inserted = 0
    /\ done = <<>>
    /\ pre = {}

NoArgs == [operation |-> None, sversion |-> 0]

Init ==
    /\ registry = ModuleLoaded
    /\ store = <<>>
    /\ ret = [call |-> "import"]
    /\ args = NoArgs
    /\ MigIdle

Next ==
    \/ \E k \in TypeKeys, d \in Descriptions, p \in Priorities :
          Construct(k, d, p)
    \/ \E created \in DefaultPrefLists : RegisterPreferences(created)
    \/ Types
    \/ \E k \in TypeKeys : GetUtilityPath(k, 10)
    \/ \E k \in TypeKeys, op \in OperationNames :
          Utility(k, op, 10, "posix", None)

Spec == Init /\ [][Next]_vars

(***************************************************************************)
(* utility and get_utility_path over the contents of the preference        *)
(***************************************************************************)
\* pg is registered; its preference is either not registered yet, or holds
\* any list the user has configured.  The call's arguments are drawn here.
InitPath ==
    /\ \/ /\ registry = ModuleLoaded
          /\ store = <<>>
       \/ /\ registry = RegisterPreferencesLoop(ModuleLoaded)
          /\ \E pl \in PrefLists : store = [h \in {"pg_bin_dir"} |-> pl]
    /\ ret = [call |-> "import"]
    /\ args \in [operation : OperationNames, sversion : SVersions]
    /\ MigIdle

NextPath ==
    \/ GetUtilityPath("pg", args.sversion)
    \/ \E osname \in OsNames, main_module_file \in MainModuleFiles :
          Utility("pg", args.operation, args.sversion, osname,
                  main_module_file)

SpecPath == InitPath /\ [][NextPath]_vars

(***************************************************************************)
(* The migration c465fee44968: upgrade()                                   *)
(***************************************************************************)
\* The columns of the user table before the migration.
Columns ==
    {"id", "username", "email", "password", "active", "confirmed_at",
     "masterpass_check", "auth_source"}

\* The select list without the email column.
SelectColumnsNoEmail ==
    {"id", "username", "password", "active", "confirmed_at",
     "masterpass_check", "auth_source"}

\* The columns the select reads from user_old.
SelectColumns ==
    {"id", "username", "email", "password", "active", "confirmed_at",
     "masterpass_check", "auth_source"}

\* A row is a function from column names to values; a column that is not
\* in its domain is NULL.
UserRow(id, username, active, auth_source) ==
    [c \in Columns |->
        CASE c = "id" -> id
          [] c = "username" -> username
          [] c = "email" -> "user@example.org"
          [] c = "password" -> "hash"
          [] c = "active" -> active
          [] c = "confirmed_at" -> None
          [] c = "masterpass_check" -> "check"
          [] c = "auth_source" -> auth_source]

RowsOfId(id) ==
    {UserRow(id, u, a.active, a.auth_source) :
        u \in {"alice", "bob"},
        a \in {[active |-> 1, auth_source |-> "internal"],
               [active |-> 0, auth_source |-> "ldap"]}}

\* The contents the user table can have: the primary key id is unique.
UserTables ==
    {t \in SUBSET UNION {RowsOfId(id) : id \in 1 .. MaxUsers} :
        \A r1, r2 \in t : r1["id"] = r2["id"] => r1 = r2}

\* uuid.uuid4(): sixteen random bytes with the version and variant bits set.
RandomBytes == {[i \in 1 .. 16 |-> b] : b \in {0, 90, 255}}

Uuid4(random) ==
    [i \in 1 .. 16 |->
        IF i = 7 THEN 64 + (random[i] % 16)
        ELSE IF i = 9 THEN 128 + (random[i] % 64)
        ELSE random[i]]

HexDigits ==
    <<"0", "1", "2", "3", "4", "5", "6", "7", "8", "9",
      "a", "b", "c", "d", "e", "f">>

\* UUID.hex: '%032x' % self.int, two digits for each byte.
Hex(uuid) ==
    [i \in 1 .. 2 * Len(uuid) |->
        IF i % 2 = 1 THEN HexDigits[(uuid[(i + 1) \div 2] \div 16) + 1]
        ELSE HexDigits[(uuid[i \div 2] % 16) + 1]]

\* The orders in which a select without ORDER BY can return the rows.
Orders(rows) ==
    {f \in [1 .. Cardinality(rows) -> rows] :
        \A i, j \in DOMAIN f : f[i] = f[j] => i = j}

\* CREATE TABLE user without the UNIQUE constraints on fs_uniquifier.
ConstraintsHoldNoUnique(table, row) ==
    /\ {"id", "username", "active", "fs_uniquifier"} \subseteq DOMAIN row
    /\ row["username"] # None
    /\ row["active"] \in {0, 1}
    /\ \A r \in table : r["id"] # row["id"]

\* CREATE TABLE user: whether the table accepts the row.  NOT NULL (the
\* auth_source column has a default), CHECK (active IN (0, 1)), PRIMARY KEY
\* (id), fs_uniquifier UNIQUE, UNIQUE (username, auth_source, fs_uniquifier).
ConstraintsHold(table, row) ==
    /\ {"id", "username", "active", "fs_uniquifier"} \subseteq DOMAIN row
    /\ row["username"] # None
    /\ row["active"] \in {0, 1}
    /\ \A r \in table : r["id"] # row["id"]
    /\ \A r \in table : r["fs_uniquifier"] # row["fs_uniquifier"]
    /\ \A r \in table :
          ~ /\ r["username"] = row["username"]
            /\ r["auth_source"] = row["auth_source"]
            /\ r["fs_uniquifier"] = row["fs_uniquifier"]

\* The row the table stores for a parameter set: auth_source DEFAULT 'internal'.
StoredRow(row) ==
    IF "auth_source" \in DOMAIN row THEN row
    ELSE ("auth_source" :> "internal") @@ row

\* upgrade() with the drop placed before the rows are copied.
NextStatementDropEarly(statement) ==
    CASE statement = "rename" -> "create"
      [] statement = "create" -> "drop"
      [] statement = "drop" -> "select"
      [] statement = "select" -> "params"
      [] statement = "params" -> "insert"
      [] statement = "insert" -> "done"

\* upgrade(): the statement that follows one that has completed.
NextStatement(statement) ==
    CASE statement = "rename" -> "create"
      [] statement = "create" -> "select"
      [] statement = "select" -> "params"
      [] statement = "params" -> "insert"
      [] statement = "insert" -> "drop"
      [] statement = "drop" -> "done"

DropTable(database, name) ==
    [t \in DOMAIN database \ {name} |-> database[t]]

\* ALTER TABLE user RENAME TO user_old
Rename ==
    /\ pc = "rename"
    /\ IF "user" \in DOMAIN db /\ "user_old" \notin DOMAIN db
       THEN /\ db' = ("user_old" :> db["user"]) @@ DropTable(db, "user")
            /\ pc' = NextStatement(pc)
            /\ done' = Append(done, "rename")
       ELSE /\ pc' = "aborted"
            /\ UNCHANGED <<db, done>>
    /\ UNCHANGED <<registry, store, ret, args, user_old, params, inserted, pre>>

\* CREATE TABLE user (...)
Create ==
    /\ pc = "create"
    /\ IF "user" \notin DOMAIN db
       THEN /\ db' = ("user" :> {}) @@ db
            /\ pc' = NextStatement(pc)
            /\ done' = Append(done, "create")
       ELSE /\ pc' = "aborted"
            /\ UNCHANGED <<db, done>>
    /\ UNCHANGED <<registry, store, ret, args, user_old, params, inserted, pre>>

\* user_old = db.engine.execute('select ... from user_old')
Select ==
    /\ pc = "select"
    /\ IF "user_old" \in DOMAIN db
       THEN /\ \E order \in Orders(db["user_old"]) :
                  user_old' = [i \in DOMAIN order |->
                                  [c \in SelectColumns |-> order[i][c]]]
            /\ pc' = NextStatement(pc)
            /\ done' = Append(done, "select")
       ELSE /\ pc' = "aborted"
            /\ UNCHANGED <<user_old, done>>
    /\ UNCHANGED <<registry, store, ret, args, db, params, inserted, pre>>

\* [{**row, 'fs_uniquifier': uuid.uuid4().hex} for row in user_old]
BuildParams ==
    /\ pc = "params"
    /\ \E random \in [DOMAIN user_old -> RandomBytes] :
          params' = [i \in DOMAIN user_old |->
                        ("fs_uniquifier" :> Hex(Uuid4(random[i])))
                            @@ user_old[i]]
    /\ pc' = NextStatement(pc)
    /\ UNCHANGED <<registry, store, ret, args, db, user_old, inserted, done, pre>>

\* The state of the database when the insert has failed: the rows it had
\* inserted are rolled back, or stay if the connection does not roll back.
AfterFailedInsert(database) ==
    {database, ("user" :> {}) @@ database}

\* db.engine.execute(User.__table__.insert(), [...]): one parameter set.
InsertRow ==
    /\ pc = "insert"
    /\ inserted < Len(params)
    /\ IF "user" \in DOMAIN db
          /\ ConstraintsHold(db["user"], params[inserted + 1])
       THEN /\ db' = [db EXCEPT !["user"] =
                         @ \cup {StoredRow(params[inserted + 1])}]
            /\ inserted' = inserted + 1
            /\ UNCHANGED pc
       ELSE /\ pc' = "aborted"
            /\ db' \in (IF "user" \in DOMAIN db THEN AfterFailedInsert(db)
                        ELSE {db})
            /\ UNCHANGED inserted
    /\ UNCHANGED <<registry, store, ret, args, user_old, params, done, pre>>

\* The insert returns when every parameter set has been executed.  With an
\* empty list the statement is a no-op or is refused by the engine.
InsertEnd ==
    /\ pc = "insert"
    /\ inserted = Len(params)
    /\ \/ /\ pc' = NextStatement(pc)
          /\ done' = Append(done, "insert")
       \/ /\ params = <<>>
          /\ pc' = "aborted"
          /\ UNCHANGED done
    /\ UNCHANGED <<registry, store, ret, args, db, user_old, params, inserted, pre>>

\* DROP TABLE user_old
Drop ==
    /\ pc = "drop"
    /\ IF "user_old" \in DOMAIN db
       THEN /\ db' = DropTable(db, "user_old")
            /\ pc' = NextStatement(pc)
            /\ done' = Append(done, "drop")
       ELSE /\ pc' = "aborted"
            /\ UNCHANGED <<db, done>>
    /\ UNCHANGED <<registry, store, ret, args, user_old, params, inserted, pre>>

\* db.engine.execute raises (the database is locked, the disk is full):
\* nothing catches it, so upgrade() ends there.
SqlError ==
    /\ pc \in {"rename", "create", "select", "insert", "drop"}
    /\ pc' = "aborted"
    /\ db' \in (IF pc = "insert" /\ "user" \in DOMAIN db
                THEN AfterFailedInsert(db) ELSE {db})
    /\ UNCHANGED <<registry, store, ret, args, user_old, params, inserted, done, pre>>

InitMig ==
    /\ registry = ModuleLoaded
    /\ store = <<>>
    /\ ret = [call |-> "import"]
    /\ args = NoArgs
    /\ pc = "rename"
    /\ pre \in UserTables
    /\ db = [t \in {"user"} |-> pre]
    /\ user_old = <<>>
    /\ params = <<>>
    /\ inserted = 0
    /\ done = <<>>

NextMig ==
    \/ Rename
    \/ Create
    \/ Select
    \/ BuildParams
    \/ InsertRow
    \/ InsertEnd
    \/ Drop
    \/ SqlError

SpecMig == InitMig /\ [][NextMig]_vars

(***************************************************************************)
(* Properties of get_utility_path and utility (checked under SpecPath)     *)
(***************************************************************************)
\* The preference list the last call read, when pg's preference exists.
Registered == registry[1].utility_path # None
PrefList == store[registry[1].utility_path]

\* The entries whose [version, next_major_version) range holds sversion.
RangeHolds(pl, sversion) ==
    {i \in DOMAIN pl :
        /\ int(pl[i].version) <= sversion
        /\ sversion < int(pl[i].next_major_version)}

\* Those of them that have a path.
RangeHoldsWithPath(pl, sversion) ==
    {i \in RangeHolds(pl, sversion) : pl[i].binaryPath # None}

Flagged(pl) == {i \in DOMAIN pl : pl[i].isDefault}

Least(S) == CHOOSE i \in S : \A j \in S : i <= j
Greatest(S) == CHOOSE i \in S : \A j \in S : j <= i

\* C1, as stated: when some entry's range holds the version,
\* get_utility_path returns the binaryPath of the first such entry.
C1_FirstInRange ==
    (ret.call = "get_utility_path" /\ Registered
     /\ RangeHolds(PrefList, ret.sversion) # {})
        => ret.value =
              PrefList[Least(RangeHolds(PrefList, ret.sversion))].binaryPath

\* C1, amended: when some entry's range holds the version and the entry has
\* a path (binaryPath is not null), get_utility_path returns the binaryPath
\* of the first such entry, whatever the isDefault flags of any entry.
C1_FirstInRangeWithPath ==
    (ret.call = "get_utility_path" /\ Registered
     /\ RangeHoldsWithPath(PrefList, ret.sversion) # {})
        => /\ ret.raised = None
           /\ ret.value =
                 PrefList[Least(RangeHoldsWithPath(PrefList, ret.sversion))]
                     .binaryPath

\* A default-flagged entry with another path comes first, the entry whose
\* range holds the version second, and the second one's path is returned.
C1_Witness ==
    /\ ret.call = "get_utility_path"
    /\ Registered
    /\ Len(PrefList) = 2
    /\ PrefList[1].isDefault
    /\ PrefList[1].binaryPath \notin {None, PrefList[2].binaryPath}
    /\ RangeHoldsWithPath(PrefList, ret.sversion) = {2}
    /\ ret.value = PrefList[2].binaryPath

\* C2: for a version that no entry's range holds, get_utility_path returns
\* the binaryPath of the default-flagged entry (of the last one when several
\* are flagged) and None when no entry is flagged; when it returns None,
\* utility returns None for each of the four operations and raises nothing.
C2_DefaultOrNone ==
    (ret.call \in {"get_utility_path", "utility"} /\ Registered
     /\ RangeHolds(PrefList, ret.sversion) = {})
        => LET expected ==
                   IF Flagged(PrefList) = {} THEN None
                   ELSE PrefList[Greatest(Flagged(PrefList))].binaryPath
           IN  /\ ret.call = "get_utility_path"
                    => ret.raised = None /\ ret.value = expected
               /\ (ret.call = "utility" /\ ret.operation \in Operations
                   /\ expected = None)
                    => /\ ret.raised = None
                       /\ ret.value = None
                       /\ ret.exe = None

\* No range holds the version and the path of the flagged entry is returned.
C2_Witness ==
    /\ ret.call = "get_utility_path"
    /\ Registered
    /\ PrefList # <<>>
    /\ RangeHolds(PrefList, ret.sversion) = {}
    /\ Flagged(PrefList) # {}
    /\ ret.value # None
    /\ ret.value = PrefList[Greatest(Flagged(PrefList))].binaryPath

\* C3: utility with an operation other than the four supported ones raises
\* InternalServerError, returns nothing, and has not read the preference,
\* whatever the preference holds and also when it was never registered.
C3_UnknownOperation ==
    (ret.call = "utility" /\ ret.operation \notin Operations)
        => /\ ret.raised = "InternalServerError"
           /\ ret.value = None
           /\ ret.exe = None
           /\ ~ret.prefRead

\* The unknown operation is refused on a descriptor without a preference.
C3_Witness ==
    /\ ret.call = "utility"
    /\ ret.operation = "unknown_op"
    /\ ~Registered
    /\ ret.raised = "InternalServerError"

(***************************************************************************)
(* Properties of the registry (checked under Spec)                         *)
(***************************************************************************)
Identity(st) ==
    [server_type |-> st.stype, description |-> st.desc,
     priority |-> st.spriority]

\* C4: constructing a ServerType whose key is in the registry raises
\* AssertionError and leaves the registry as it was.
C4_DuplicateRejected ==
    [][(ret'.call = "ServerType" /\ ret'.key \in RegistryKeys(registry))
          => (ret'.raised = "AssertionError" /\ registry' = registry)]_vars

\* A second registration of ppas has been refused.
C4_Witness ==
    /\ ret.call = "ServerType"
    /\ ret.key = "ppas"
    /\ ret.raised = "AssertionError"
    /\ Len(registry) >= 2

Position(seq, x) == CHOOSE i \in DOMAIN seq : seq[i] = x

\* C5: types() returns every registered descriptor exactly once, by
\* non-increasing priority, equal priorities in the order of registration.
C5_TypesSorted ==
    ret.call = "types"
        => /\ Len(ret.value) = Len(registry)
           /\ \A i \in DOMAIN registry :
                 Cardinality({j \in DOMAIN ret.value :
                                 ret.value[j] = registry[i]}) = 1
           /\ \A j \in 1 .. Len(ret.value) - 1 :
                 ret.value[j].spriority >= ret.value[j + 1].spriority
           /\ \A i, j \in DOMAIN ret.value :
                 (i < j /\ ret.value[i].spriority = ret.value[j].spriority)
                    => Position(registry, ret.value[i])
                          < Position(registry, ret.value[j])

\* Three descriptors, two of equal priority registered before a higher one.
C5_Witness ==
    /\ ret.call = "types"
    /\ Len(registry) = 3
    /\ registry[1].spriority = registry[2].spriority
    /\ registry[3].spriority > registry[2].spriority
    /\ ret.value = <<registry[3], registry[1], registry[2]>>

\* C6: after register_preferences every descriptor of the registry has a
\* preference handle in utility_path.
C6_EveryTypeHasHandle ==
    ret.call = "register_preferences"
        => \A i \in DOMAIN registry : registry[i].utility_path # None

Table(name) == IF name \in DOMAIN db THEN db[name] ELSE {}

\* The row carries the data of the pre-migration row r.
SameData(row, r) ==
    \A c \in Columns : c \in DOMAIN row /\ row[c] = r[c]

IsHex32(x) ==
    /\ DOMAIN x = 1 .. 32
    /\ \A i \in DOMAIN x : \E d \in DOMAIN HexDigits : x[i] = HexDigits[d]

\* C7: when upgrade() has completed, every pre-migration row has exactly
\* one row of the new user table with the same id, username, email,
\* password, active, confirmed_at, masterpass_check and auth_source; that
\* row has a fs_uniquifier of 32 hex characters; the new table has no other
\* row; and user_old is gone.
C7_RowsPreserved ==
    pc = "done"
        => /\ "user_old" \notin DOMAIN db
           /\ "user" \in DOMAIN db
           /\ Cardinality(db["user"]) = Cardinality(pre)
           /\ \A r \in pre :
                 Cardinality({n \in db["user"] : SameData(n, r)}) = 1
           /\ \A n \in db["user"] :
                 /\ \E r \in pre : SameData(n, r)
                 /\ "fs_uniquifier" \in DOMAIN n
                 /\ IsHex32(n["fs_uniquifier"])

\* upgrade() has completed on a table of at least two rows.
C7_Witness ==
    /\ pc = "done"
    /\ Cardinality(pre) >= 2
    /\ Cardinality(Table("user")) >= 2

\* C8: in the new user table fs_uniquifier is never null and never shared
\* by two rows, so no two rows share (username, auth_source,
\* fs_uniquifier); and the insert completes only when the identifiers
\* generated are pairwise distinct (a collision makes it fail).
C8_UniquifierUnique ==
    "create" \in {done[i] : i \in DOMAIN done}
        => /\ \A n \in Table("user") : "fs_uniquifier" \in DOMAIN n
           /\ \A n, m \in Table("user") :
                 n # m =>
                    /\ n["fs_uniquifier"] # m["fs_uniquifier"]
                    /\ <<n["username"], n["auth_source"], n["fs_uniquifier"]>>
                          # <<m["username"], m["auth_source"],
                               m["fs_uniquifier"]>>
           /\ pc \in {"drop", "done"}
                 => \A i, j \in DOMAIN params :
                       params[i]["fs_uniquifier"] = params[j]["fs_uniquifier"]
                          => i = j

\* The second identifier generated equals the first, and the insert failed.
C8_Witness ==
    /\ pc = "aborted"
    /\ inserted = 1
    /\ Len(params) >= 2
    /\ params[1]["fs_uniquifier"] = params[2]["fs_uniquifier"]
    /\ "insert" \notin {done[i] : i \in DOMAIN done}

StatementOrder == <<"rename", "create", "select", "insert", "drop">>

\* C10 (the states): the statements completed are a prefix of rename,
\* create, select, insert, drop; user_old is dropped only when every
\* pre-migration row is in the new user table; and every pre-migration row
\* is in user_old or in user.
C10_State ==
    /\ Len(done) <= Len(StatementOrder)
    /\ \A i \in DOMAIN done : done[i] = StatementOrder[i]
    /\ pc = "done" <=> done = StatementOrder
    /\ "drop" \in {done[i] : i \in DOMAIN done}
          => \A r \in pre : \E n \in Table("user") : SameData(n, r)
    /\ \A r \in pre :
          \E n \in Table("user") \cup Table("user_old") : SameData(n, r)

\* C10: the statements of upgrade() run in the order rename, create, read,
\* insert, drop; once a statement has failed no step is taken; user_old is
\* dropped only after every row is in the new table; and in every state
\* each pre-migration row is in user_old or in user.
C10_OrderedAndAbortStops ==
    /\ []C10_State
    /\ [][pc # "aborted"]_vars

\* The insert failed after a row was inserted: user_old still holds every
\* pre-migration row and was not dropped.
C10_Witness ==
    /\ pc = "aborted"
    /\ done = <<"rename", "create", "select">>
    /\ inserted >= 1
    /\ pre # {}
    /\ Table("user_old") = pre

=============================================================================
